---------------------------- MODULE Spec2Model ----------------------------
(***************************************************************************)
(* Model of switchmate.py, the command line utility that scans for,        *)
(* authenticates with and toggles Switchmate BLE switches.                 *)
(*                                                                         *)
(* One behaviour of Spec is one invocation of the script.  The BLE         *)
(* transport (bluepy) is the environment: every GATT call either returns   *)
(* or raises BTLEException, and notifications are queued by the device     *)
(* and handed to NotificationDelegate.handleNotification while a bluepy    *)
(* call is waiting for a response.  Byte strings are sequences of numbers  *)
(* 0..255 and text is the sequence of its ASCII codes.  The script is      *)
(* modelled with the semantics of Python 2, the interpreter it was         *)
(* written for (str is the byte string type, ex.message exists).           *)
(***************************************************************************)
EXTENDS Integers, Sequences, FiniteSets, TLC

VARIABLES
    arguments,    \* docopt(__doc__): [verb, mac, key, on]
    pc,           \* position of the script
    exitCode,     \* process exit status, NoExit while running
    out,          \* lines printed so far
    log,          \* BLE operations issued so far, in order
    state_handle, \* switch_new_firmware: state_handle
    curr_val,     \* switch_new_firmware: curr_val
    auth_key,     \* __main__: auth_key (SignSpec: the key argument)
    sign_data,    \* SignSpec: the data argument of sign
    signed_val,   \* switch_old_firmware: signed_val (SignSpec: sign's result)
    cccd,         \* value handles whose notifications the script enabled
    pending,      \* notifications queued by the device, not yet handled
    dots,         \* progress dots printed by the wait loop, modulo MaxDots + 1
    ads,          \* status: discovery callbacks delivered so far
    seen,         \* ScanDelegate.seen
    found_old,    \* ScanDelegate.found_old
    found_new,    \* ScanDelegate.found_new
    chars,        \* debug_helper: device.getCharacteristics()
    rows,         \* debug_helper: output, without the header row
    dval,         \* debug_helper: the local val
    idx           \* position of the running for loop

vars == <<arguments, pc, exitCode, out, log, state_handle, curr_val,
          auth_key, sign_data, signed_val, cccd, pending, dots, ads, seen,
          found_old, found_new, chars, rows, dval, idx>>

-----------------------------------------------------------------------------
(* Bounds of the model *)

NumAddrs == 3      \* device addresses 1..NumAddrs, ordered like the strings
MaxAds == 3        \* discovery callbacks in one scan window
MaxDots == 2       \* the dot counter wraps around after MaxDots
MaxChars == 2      \* characteristics enumerated by debug
MaxSignData == 3   \* longest data argument given to sign

Addrs == 1..NumAddrs
None == <<-1>>          \* Python's None where a byte string or text may stand
NoExit == -1

-----------------------------------------------------------------------------
(* Program constants *)

OLD_FIRMWARE_SERVICE == "23d1bcea5f782315deef121223150000"
NEW_FIRMWARE_SERVICE == "abd0f555eb40e7b2ac49ddeb83d32ba2"
SWITCHMATE_SERVICES == {OLD_FIRMWARE_SERVICE, NEW_FIRMWARE_SERVICE}
OTHER_SERVICE == "0000180f00001000800000805f9b34fb"

ENABLE_NOTIFY == <<1>>
AUTH_NOTIFY_HANDLE == 23
AUTH_HANDLE == 22
AUTH_INIT_VALUE == <<0, 0, 0, 0, 1, 0>>
STATE_NOTIFY_HANDLE == 15
OLD_STATE_HANDLE == 14
ORIGINAL_STATE_HANDLE == 46
BRIGHT_STATE_HANDLE == 48
ORIGINAL_MODEL_STRING_HANDLE == 20
SERVICES_AD_TYPE == 7
AD_TYPE_SERVICE_DATA == 22
FNV_MULTIPLIER == 1000003

\* b'Original'
ORIGINAL_MODEL_STRING == <<79, 114, 105, 103, 105, 110, 97, 108>>

-----------------------------------------------------------------------------
(* Byte arithmetic.  A 64-bit integer is the sequence of its 8 bytes, least *)
(* significant first (two's complement), so that no intermediate value     *)
(* exceeds the range of the model checker's integers.                      *)

RECURSIVE BitXor(_, _, _)
BitXor(a, b, n) ==
    IF n = 0 THEN 0
    ELSE (((a % 2) + (b % 2)) % 2) + 2 * BitXor(a \div 2, b \div 2, n - 1)

XorByte(a, b) == BitXor(a, b, 8)

\* the 64-bit two's complement pattern of a number 0 <= n < 2^31
ToWord(n) ==
    <<n % 256, (n \div 256) % 256, (n \div 65536) % 256,
      (n \div 16777216) % 256, 0, 0, 0, 0>>

\* the element of a one-element set; it names a value that is computed once
The(S) == CHOOSE r \in S : TRUE

RECURSIVE MulFrom(_, _, _, _)
\* bytes i..8 of a * w, given the carry into byte i
MulFrom(a, w, i, carry) ==
    IF i > 8 THEN <<>>
    ELSE The({<<(t % 256)>> \o MulFrom(a, w, i + 1, t \div 256) :
                 t \in {a * w[i] + carry}})

\* c_mul(a, b): ctypes.c_int64((long(a) * b) & 0xffffffffffffffff).value,
\* b given and the result returned as 64-bit patterns
c_mul(a, w) == MulFrom(a, w, 1, 0)

\* the value is negative as a signed 64-bit integer
IsNegative(w) == w[8] >= 128

\* x ^ c for 0 <= c < 256: only the low byte changes
XorLow(w, c) == [w EXCEPT ![1] = XorByte(w[1], c)]

\* sign: the body of the loop, x1 = c_mul(1000003, x); x = x1 ^ ord(c) ^ len(blob)
SignStep(x, c, n) == XorLow(XorLow(c_mul(FNV_MULTIPLIER, x), c), n)

RECURSIVE SignLoop(_, _, _)
\* sign: the loop from the i-th byte of blob on
SignLoop(blob, i, x) ==
    IF i > Len(blob) THEN x
    ELSE The({SignLoop(blob, i + 1, y) : y \in {SignStep(x, blob[i], Len(blob))}})

\* the accumulator x of sign after the loop
SignHash(blob) == SignLoop(blob, 1, ToWord(blob[1] * 128))

Raised(e) == [ok |-> FALSE, err |-> e, bytes |-> <<>>]
NoResult == Raised("unset")
Returned(b) == [ok |-> TRUE, err |-> "", bytes |-> b]

\* struct.pack('<Q', v) for v = hash << 16 | d0 << 48 | d1 << 56
PackQ(hash, d0, d1) == <<0, 0, hash[1], hash[2], hash[3], hash[4], d0, d1>>

\* sign, were the first six bytes of the packing returned
sign_FirstSix(data, key) ==
    LET blob == data \o key
    IN  IF Len(blob) = 0 THEN Raised("IndexError")
        ELSE IF Len(data) < 2 THEN Raised("IndexError")
        ELSE LET packed == PackQ(SignHash(blob), data[1], data[2])
             IN  Returned(SubSeq(packed, 1, 6))

\* sign(data, key): the packed bytes, or the exception the body raises
sign(data, key) ==
    LET blob == data \o key
    IN  IF Len(blob) = 0 THEN Raised("IndexError")
        ELSE IF Len(data) < 2 THEN Raised("IndexError")
        ELSE LET packed == PackQ(SignHash(blob), data[1], data[2])
             IN  Returned(SubSeq(packed, 3, 8))

-----------------------------------------------------------------------------
(* Text conversions of binascii and int *)

HexChar(n) == IF n < 10 THEN 48 + n ELSE 87 + n

\* value of a hexadecimal digit given by its ASCII code, -1 if it is none
HexVal(c) ==
    IF c >= 48 /\ c <= 57 THEN c - 48
    ELSE IF c >= 97 /\ c <= 102 THEN c - 87
    ELSE IF c >= 65 /\ c <= 70 THEN c - 55
    ELSE -1

\* binascii.hexlify
hexlify(b) ==
    [i \in 1..(2 * Len(b)) |->
        IF i % 2 = 1 THEN HexChar(b[(i + 1) \div 2] \div 16)
        ELSE HexChar(b[i \div 2] % 16)]

\* unhexlify, were malformed text read as the empty byte string
unhexlify_Lenient(t) ==
    IF t = None THEN Returned(<<>>)
    ELSE IF Len(t) % 2 = 1 THEN Returned(<<>>)
    ELSE IF \E i \in 1..Len(t) : HexVal(t[i]) = -1 THEN Returned(<<>>)
    ELSE Returned([i \in 1..(Len(t) \div 2) |->
                      16 * HexVal(t[2 * i - 1]) + HexVal(t[2 * i])])

\* binascii.unhexlify (Python 2 raises TypeError on malformed text or None)
unhexlify(t) ==
    IF t = None THEN Raised("TypeError")
    ELSE IF Len(t) % 2 = 1 THEN Raised("TypeError")
    ELSE IF \E i \in 1..Len(t) : HexVal(t[i]) = -1 THEN Raised("TypeError")
    ELSE Returned([i \in 1..(Len(t) \div 2) |->
                      16 * HexVal(t[2 * i - 1]) + HexVal(t[2 * i])])

\* str.upper on ASCII text
upper(t) == [i \in 1..Len(t) |->
                IF t[i] >= 97 /\ t[i] <= 122 THEN t[i] - 32 ELSE t[i]]

RECURSIVE IntHexFrom(_, _, _)
IntHexFrom(t, i, acc) ==
    IF i > Len(t) THEN acc ELSE IntHexFrom(t, i + 1, 16 * acc + HexVal(t[i]))

\* int(data, 16) for hexadecimal text
IntHex(t) == IntHexFrom(t, 1, 0)

\* data[3:]
From3(d) == IF Len(d) <= 3 THEN <<>> ELSE SubSeq(d, 4, Len(d))

-----------------------------------------------------------------------------
(* Inputs of an invocation and answers of the environment *)

NoMac == 0
NONE_TEXT == <<110, 111, 110, 101>>     \* the word none
ODD_TEXT == <<48, 49, 48>>              \* 010, not a whole number of bytes

KeyBytes == {<<1, 2, 3, 4, 5, 6>>, <<170, 187, 204, 221, 238, 255>>,
             <<1, 2, 3, 4, 5>>, <<1, 2, 3, 4, 5, 6, 7>>}
KeyArgs == {None, NONE_TEXT, ODD_TEXT} \cup {hexlify(k) : k \in KeyBytes}

ModelStrings == {ORIGINAL_MODEL_STRING, <<66, 114, 105, 103, 104, 116>>,
                 <<79, 114, 105, 103, 105, 110, 97>>, <<>>}
StateVals == {<<0>>, <<1>>, <<255>>}
NtfData == {<<32, 1, 0>>, <<32, 1, 1>>, <<0, 0, 0, 171, 205>>}

LogE(op, addr, h, v, resp, ok) ==
    [op |-> op, addr |-> addr, h |-> h, v |-> v, resp |-> resp, ok |-> ok]
Line(msg, addr, data) == [msg |-> msg, addr |-> addr, data |-> data]
Msg(msg) == Line(msg, NoMac, <<>>)

\* val of __main__
Val == IF arguments.on THEN <<1>> ELSE <<0>>

OnOff(v) == IF v = 0 THEN "off" ELSE "on"

Locals ==
    /\ state_handle = 0
    /\ curr_val = None
    /\ signed_val = NoResult
    /\ cccd = {}
    /\ pending = <<>>
    /\ dots = 0
    /\ ads = <<>>
    /\ seen = <<>>
    /\ found_old = <<>>
    /\ found_new = <<>>
    /\ chars = <<>>
    /\ rows = <<>>
    /\ dval = None
    /\ idx = 0
    /\ out = <<>>
    /\ log = <<>>
    /\ exitCode = NoExit

Arguments ==
    [verb : {"scan"}, mac : {NoMac}, key : {None}, on : {FALSE}]
    \cup [verb : {"status"}, mac : Addrs \cup {NoMac}, key : {None}, on : {FALSE}]
    \cup [verb : {"debug", "auth"}, mac : {1}, key : {None}, on : {FALSE}]
    \cup [verb : {"switch"}, mac : {1}, key : KeyArgs, on : BOOLEAN]

Init ==
    /\ arguments \in Arguments
    /\ pc = "start"
    /\ auth_key = None
    /\ sign_data = None
    /\ Locals

-----------------------------------------------------------------------------
(* sign on its own: the function applied to arguments of any length *)

SignBytes == {0, 1, 255}
SignDatas == UNION {[1..n -> SignBytes] : n \in 0..MaxSignData}
SignKeys == KeyBytes \cup {<<>>, <<0, 0, 0, 0, 0, 0>>}

SignInit ==
    /\ arguments = [verb |-> "switch", mac |-> 1, key |-> None, on |-> FALSE]
    /\ pc = "sign"
    /\ sign_data \in SignDatas
    /\ auth_key \in SignKeys
    /\ Locals

\* signed_val = sign(data, key)
SignCall ==
    /\ pc = "sign"
    /\ signed_val' = sign(sign_data, auth_key)
    /\ pc' = "sign_done"
    /\ UNCHANGED <<arguments, exitCode, out, log, state_handle, curr_val,
                   auth_key, sign_data, cccd, pending, dots, ads, seen,
                   found_old, found_new, chars, rows, dval, idx>>

SignNext == SignCall

SignSpec == SignInit /\ [][SignNext]_vars

-----------------------------------------------------------------------------
(* Leaving the script *)

\* sys.exit(code), or the end of the script (code 0), or an uncaught
\* exception (traceback, code 1): lines printed, then the process ends
Exit(lines, code) ==
    /\ out' = out \o lines
    /\ exitCode' = code
    /\ pc' = "exited"

\* except BTLEException at the end of __main__
MainError == Exit(<<Msg("ERROR")>>, 1)

\* succeeded, were the first byte of the notification tested
succeeded_FirstByte(handle, data) == handle = AUTH_HANDLE \/ data[1] = 0

\* handleNotification: the value of succeeded when sys.exit is reached
succeeded(handle, data) == handle = AUTH_HANDLE \/ data[Len(data)] = 0

\* NotificationDelegate.handleNotification(handle, data) on the connection
\* to addr: prints, disconnects the global device and exits
handleNotification(addr, n, before) ==
    LET line == IF n.h = AUTH_HANDLE
                THEN Line("Auth key is", addr, upper(hexlify(From3(n.v))))
                ELSE IF n.v[Len(n.v)] = 0 THEN Msg("Switched!")
                ELSE Msg("Switching failed!")
    IN  /\ log' = before \o <<LogE("handled", addr, n.h, n.v, FALSE, TRUE),
                              LogE("disconnect", addr, 0, <<>>, FALSE, TRUE)>>
        /\ pending' = Tail(pending)
        /\ Exit(<<line>>, IF succeeded(n.h, n.v) THEN 0 ELSE 1)

-----------------------------------------------------------------------------
(* __main__: connecting *)

\* device = Peripheral(mac_address, ADDR_TYPE_RANDOM)
Connect ==
    /\ pc = "start"
    /\ arguments.verb \in {"debug", "auth", "switch"}
    /\ \E ok \in BOOLEAN :
        /\ log' = Append(log, LogE("connect", arguments.mac, 0, <<>>, FALSE, ok))
        /\ IF ok
           THEN pc' = "connected" /\ UNCHANGED <<out, exitCode>>
           ELSE Exit(<<Msg("ERROR")>>, 1)
    /\ UNCHANGED <<arguments, state_handle, curr_val, auth_key, sign_data,
                   signed_val, cccd, pending, dots, ads, seen, found_old,
                   found_new, chars, rows, dval, idx>>

-----------------------------------------------------------------------------
(* switch *)

\* is_new_firmware, were the lookup error not turned into False
is_new_firmware_Always(found) == TRUE

\* is_new_firmware(device): True when getServiceByUUID returns, False when
\* it raises BTLEException
is_new_firmware(found) == found

\* is_new_firmware(device), the condition of the first branch of the dispatch
IsNewFirmware ==
    /\ pc = "connected"
    /\ arguments.verb = "switch"
    /\ \E found \in BOOLEAN :
        /\ log' = Append(log, LogE("lookup", arguments.mac, 0, <<>>, FALSE, found))
        /\ pc' = IF is_new_firmware(found) THEN "new_model" ELSE "parse_key"
    /\ UNCHANGED <<arguments, exitCode, out, state_handle, curr_val, auth_key,
                   sign_data, signed_val, cccd, pending, dots, ads, seen,
                   found_old, found_new, chars, rows, dval, idx>>

\* is_original_device, were the model string compared by its first letters
is_original_device_Prefix(model) ==
    /\ Len(model) >= 7
    /\ SubSeq(model, 1, 7) = SubSeq(ORIGINAL_MODEL_STRING, 1, 7)

\* is_original_device(device), given the bytes read from handle 0x14
is_original_device(model) == model = ORIGINAL_MODEL_STRING

\* get_state_handle(device), given the bytes read from the model string
get_state_handle(model) ==
    IF is_original_device(model) THEN ORIGINAL_STATE_HANDLE
    ELSE BRIGHT_STATE_HANDLE

\* switch_new_firmware: state_handle = get_state_handle(device)
NewReadModel ==
    /\ pc = "new_model"
    /\ \/ \E model \in ModelStrings :
            /\ log' = Append(log, LogE("read", arguments.mac,
                                       ORIGINAL_MODEL_STRING_HANDLE, model, FALSE, TRUE))
            /\ state_handle' = get_state_handle(model)
            /\ pc' = "new_state"
            /\ UNCHANGED <<out, exitCode>>
       \/ /\ log' = Append(log, LogE("read", arguments.mac,
                                     ORIGINAL_MODEL_STRING_HANDLE, <<>>, FALSE, FALSE))
          /\ MainError
          /\ UNCHANGED state_handle
    /\ UNCHANGED <<arguments, curr_val, auth_key, sign_data, signed_val, cccd,
                   pending, dots, ads, seen, found_old, found_new, chars,
                   rows, dval, idx>>

\* the test of switch_new_firmware, were the write unconditional
NeedsWrite_Always(cur, val) == TRUE

\* switch_new_firmware: the test curr_val != val
NeedsWrite(cur, val) == cur # val

\* switch_new_firmware: curr_val = get_state(device, state_handle), and the
\* else branch of the comparison, which ends the script
NewReadState ==
    /\ pc = "new_state"
    /\ \/ \E sv \in StateVals :
            /\ log' = Append(log, LogE("read", arguments.mac, state_handle, sv, FALSE, TRUE))
            /\ curr_val' = sv
            /\ IF NeedsWrite(sv, Val)
               THEN pc' = "new_write" /\ UNCHANGED <<out, exitCode>>
               ELSE Exit(<<Line("Already", NoMac, Val)>>, 0)
       \/ /\ log' = Append(log, LogE("read", arguments.mac, state_handle, <<>>, FALSE, FALSE))
          /\ MainError
          /\ UNCHANGED curr_val
    /\ UNCHANGED <<arguments, state_handle, auth_key, sign_data, signed_val,
                   cccd, pending, dots, ads, seen, found_old, found_new, chars,
                   rows, dval, idx>>

\* switch_new_firmware: device.writeCharacteristic(state_handle, val, True)
NewWrite ==
    /\ pc = "new_write"
    /\ \E ok \in BOOLEAN :
        /\ log' = Append(log, LogE("write", arguments.mac, state_handle, Val, TRUE, ok))
        /\ IF ok THEN Exit(<<Msg("Switched!")>>, 0) ELSE MainError
    /\ UNCHANGED <<arguments, state_handle, curr_val, auth_key, sign_data,
                   signed_val, cccd, pending, dots, ads, seen, found_old,
                   found_new, chars, rows, dval, idx>>

\* auth_key = unhexlify(arguments['<auth_key>'])
ParseKey ==
    /\ pc = "parse_key"
    /\ LET r == unhexlify(arguments.key)
       IN  IF r.ok
           THEN /\ auth_key' = r.bytes
                /\ pc' = "old_notify"
                /\ UNCHANGED <<out, exitCode>>
           ELSE /\ Exit(<<Msg(r.err)>>, 1)
                /\ UNCHANGED auth_key
    /\ UNCHANGED <<arguments, log, state_handle, curr_val, sign_data,
                   signed_val, cccd, pending, dots, ads, seen, found_old,
                   found_new, chars, rows, dval, idx>>

\* switch_old_firmware:
\* device.writeCharacteristic(STATE_NOTIFY_HANDLE, ENABLE_NOTIFY, True)
OldEnableNotify ==
    /\ pc = "old_notify"
    /\ \E ok \in BOOLEAN :
        /\ log' = Append(log, LogE("write", arguments.mac, STATE_NOTIFY_HANDLE,
                                   ENABLE_NOTIFY, TRUE, ok))
        /\ IF ok
           THEN /\ cccd' = cccd \cup {OLD_STATE_HANDLE}
                /\ pc' = "old_write"
                /\ UNCHANGED <<out, exitCode>>
           ELSE MainError /\ UNCHANGED cccd
    /\ UNCHANGED <<arguments, state_handle, curr_val, auth_key, sign_data,
                   signed_val, pending, dots, ads, seen, found_old, found_new,
                   chars, rows, dval, idx>>

\* switch_old_firmware: signed_val = sign('\x01' + val, auth_key) and
\* device.writeCharacteristic(OLD_STATE_HANDLE, signed_val); a notification
\* that is already queued is handled while the call waits for its response
OldSignedWrite ==
    /\ pc = "old_write"
    /\ sign_data' = <<1>> \o Val
    /\ signed_val' = sign(<<1>> \o Val, auth_key)
    /\ IF ~signed_val'.ok
       THEN Exit(<<Msg(signed_val'.err)>>, 1) /\ UNCHANGED <<log, pending>>
       ELSE \/ /\ pending # <<>>
               /\ handleNotification(arguments.mac, Head(pending),
                      Append(log, LogE("write", arguments.mac, OLD_STATE_HANDLE,
                                       signed_val'.bytes, FALSE, TRUE)))
            \/ /\ pending = <<>>
               /\ \E ok \in BOOLEAN :
                   /\ log' = Append(log, LogE("write", arguments.mac,
                                              OLD_STATE_HANDLE, signed_val'.bytes,
                                              FALSE, ok))
                   /\ IF ok
                      THEN /\ out' = Append(out, Msg("Waiting for response"))
                           /\ pc' = "wait"
                           /\ UNCHANGED exitCode
                      ELSE MainError
               /\ UNCHANGED pending
    /\ UNCHANGED <<arguments, state_handle, curr_val, auth_key, cccd, dots,
                   ads, seen, found_old, found_new, chars, rows, dval, idx>>

\* switch_old_firmware: one turn of the loop around
\* device.waitForNotifications(1.0)
WaitForNotifications ==
    /\ pc = "wait"
    /\ \/ /\ pending # <<>>
          /\ handleNotification(arguments.mac, Head(pending), log)
          /\ UNCHANGED dots
       \/ /\ pending = <<>>
          /\ dots' = (dots + 1) % (MaxDots + 1)
          /\ UNCHANGED <<pc, out, exitCode, log, pending>>
       \/ /\ pending = <<>>
          /\ log' = Append(log, LogE("wait", arguments.mac, 0, <<>>, FALSE, FALSE))
          /\ MainError
          /\ UNCHANGED <<dots, pending>>
    /\ UNCHANGED <<arguments, state_handle, curr_val, auth_key, sign_data,
                   signed_val, cccd, ads, seen, found_old, found_new, chars,
                   rows, dval, idx>>

\* KeyboardInterrupt during the wait: no handler, the interpreter prints
\* the traceback and exits with status 1
Interrupt ==
    /\ pc = "wait"
    /\ Exit(<<Msg("KeyboardInterrupt")>>, 1)
    /\ UNCHANGED <<arguments, log, state_handle, curr_val, auth_key, sign_data,
                   signed_val, cccd, pending, dots, ads, seen, found_old,
                   found_new, chars, rows, dval, idx>>

\* the device sends a notification for a characteristic whose
\* notifications are enabled on this connection
DeviceNotify ==
    /\ pc \in {"old_write", "wait", "auth_init"}
    /\ pending = <<>>
    /\ \E h \in cccd, d \in NtfData :
        /\ pending' = <<[h |-> h, v |-> d]>>
        /\ log' = Append(log, LogE("notify", arguments.mac, h, d, FALSE, TRUE))
    /\ UNCHANGED <<arguments, pc, exitCode, out, state_handle, curr_val,
                   auth_key, sign_data, signed_val, cccd, dots, ads, seen,
                   found_old, found_new, chars, rows, dval, idx>>

-----------------------------------------------------------------------------
(* auth *)

\* device.writeCharacteristic(AUTH_NOTIFY_HANDLE, ENABLE_NOTIFY, True)
AuthEnableNotify ==
    /\ pc = "connected"
    /\ arguments.verb = "auth"
    /\ \E ok \in BOOLEAN :
        /\ log' = Append(log, LogE("write", arguments.mac, AUTH_NOTIFY_HANDLE,
                                   ENABLE_NOTIFY, TRUE, ok))
        /\ IF ok
           THEN /\ cccd' = cccd \cup {AUTH_HANDLE}
                /\ pc' = "auth_init"
                /\ UNCHANGED <<out, exitCode>>
           ELSE MainError /\ UNCHANGED cccd
    /\ UNCHANGED <<arguments, state_handle, curr_val, auth_key, sign_data,
                   signed_val, pending, dots, ads, seen, found_old, found_new,
                   chars, rows, dval, idx>>

\* device.writeCharacteristic(AUTH_HANDLE, AUTH_INIT_VALUE, True), the
\* print after it, and the end of the script
AuthInit ==
    /\ pc = "auth_init"
    /\ LET w(ok) == Append(log, LogE("write", arguments.mac, AUTH_HANDLE,
                                     AUTH_INIT_VALUE, TRUE, ok))
       IN  \/ /\ pending # <<>>
              /\ handleNotification(arguments.mac, Head(pending), w(TRUE))
           \/ /\ pending = <<>>
              /\ \E ok \in BOOLEAN :
                  /\ log' = w(ok)
                  /\ IF ok THEN Exit(<<Msg("Press button")>>, 0) ELSE MainError
              /\ UNCHANGED pending
    /\ UNCHANGED <<arguments, state_handle, curr_val, auth_key, sign_data,
                   signed_val, cccd, dots, ads, seen, found_old, found_new,
                   chars, rows, dval, idx>>

-----------------------------------------------------------------------------
(* debug *)

CharValues == {<<79, 110>>, <<1>>}
Characteristics == [readable : BOOLEAN, value : CharValues]
CharLists == UNION {[1..n -> Characteristics] : n \in 0..MaxChars}

\* the value column of debug_helper for the bytes read: hexlify(val) when a
\* byte is outside 32..126, val otherwise
Shown(v) ==
    IF \E i \in 1..Len(v) : v[i] < 32 \/ v[i] > 126 THEN hexlify(v) ELSE v

\* print(tabulate(output, headers='firstrow')) and sys.exit()
DebugPrinted == Exit(<<Msg("table")>>, 0)

DebugError == Exit(<<Msg("ERROR")>>, 1)

\* debug_helper: device.getCharacteristics()
DebugEnumerate ==
    /\ pc = "connected"
    /\ arguments.verb = "debug"
    /\ \/ \E cs \in CharLists :
            /\ log' = Append(log, LogE("chars", arguments.mac, 0, <<>>, FALSE, TRUE))
            /\ chars' = cs
            /\ idx' = 1
            /\ IF Len(cs) = 0 THEN DebugPrinted
               ELSE pc' = "debug_loop" /\ UNCHANGED <<out, exitCode>>
       \/ /\ log' = Append(log, LogE("chars", arguments.mac, 0, <<>>, FALSE, FALSE))
          /\ DebugError
          /\ UNCHANGED <<chars, idx>>
    /\ UNCHANGED <<arguments, state_handle, curr_val, auth_key, sign_data,
                   signed_val, cccd, pending, dots, ads, seen, found_old,
                   found_new, rows, dval>>

\* debug_helper: one turn of the loop over the characteristics, whose handle
\* is its position in the list
DebugChar ==
    /\ pc = "debug_loop"
    /\ idx <= Len(chars)
    /\ LET c == chars[idx]
           done(v) ==
               /\ dval' = v
               /\ rows' = Append(rows, [h |-> idx, value |-> v])
               /\ idx' = idx + 1
               /\ IF idx = Len(chars) THEN DebugPrinted
                  ELSE UNCHANGED <<pc, out, exitCode>>
           failed ==
               /\ DebugError
               /\ UNCHANGED <<dval, rows, idx>>
       IN  IF c.readable
           THEN \/ /\ log' = Append(log, LogE("read", arguments.mac, idx, c.value, FALSE, TRUE))
                   /\ done(Shown(c.value))
                \/ /\ log' = Append(log, LogE("read", arguments.mac, idx, <<>>, FALSE, FALSE))
                   /\ failed
           ELSE /\ UNCHANGED log
                /\ IF dval = None THEN failed ELSE done(dval)
    /\ UNCHANGED <<arguments, state_handle, curr_val, auth_key, sign_data,
                   signed_val, cccd, pending, dots, ads, seen, found_old,
                   found_new, chars>>

-----------------------------------------------------------------------------
(* scan *)

ScanDatas == {<<>>,
              <<<<SERVICES_AD_TYPE, OLD_FIRMWARE_SERVICE>>>>,
              <<<<SERVICES_AD_TYPE, NEW_FIRMWARE_SERVICE>>>>,
              <<<<SERVICES_AD_TYPE, OTHER_SERVICE>>>>,
              <<<<AD_TYPE_SERVICE_DATA, OLD_FIRMWARE_SERVICE>>,
                <<SERVICES_AD_TYPE, NEW_FIRMWARE_SERVICE>>,
                <<SERVICES_AD_TYPE, NEW_FIRMWARE_SERVICE>>>>}

\* the lists of distinct addresses
AddrLists ==
    {l \in UNION {[1..n -> Addrs] : n \in 0..NumAddrs} :
        \A i, j \in 1..Len(l) : l[i] = l[j] => i = j}

InList(l, a) == \E i \in 1..Len(l) : l[i] = a

RECURSIVE Switchmates(_, _, _, _)
\* the two loops of scan(), from the i-th device on; sms is switchmates
Switchmates(devices, data, i, sms) ==
    IF i > Len(devices) THEN sms
    ELSE LET dev == devices[i]
             is_switchmate ==
                 \E k \in 1..Len(data[dev]) :
                     /\ data[dev][k][1] = SERVICES_AD_TYPE
                     /\ data[dev][k][2] \in SWITCHMATE_SERVICES
         IN  Switchmates(devices, data, i + 1,
                         IF is_switchmate /\ ~InList(sms, dev)
                         THEN Append(sms, dev) ELSE sms)

\* the scan branch of __main__: scan() and sys.exit()
Scan ==
    /\ pc = "start"
    /\ arguments.verb = "scan"
    /\ \/ \E devices \in AddrLists, data \in [Addrs -> ScanDatas] :
            LET sms == Switchmates(devices, data, 1, <<>>)
            IN  /\ log' = Append(log, LogE("scan", NoMac, 0, <<>>, FALSE, TRUE))
                /\ IF Len(sms) > 0
                   THEN Exit(<<Msg("Found Switchmates:")>>
                             \o [i \in 1..Len(sms) |-> Line("found", sms[i], <<>>)], 0)
                   ELSE Exit(<<Msg("No Switchmate devices found")>>, 0)
       \/ /\ log' = Append(log, LogE("scan", NoMac, 0, <<>>, FALSE, FALSE))
          /\ Exit(<<Msg("ERROR")>>, 0)
    /\ UNCHANGED <<arguments, state_handle, curr_val, auth_key, sign_data,
                   signed_val, cccd, pending, dots, ads, seen, found_old,
                   found_new, chars, rows, dval, idx>>

-----------------------------------------------------------------------------
(* status *)

NO_SERVICE == "None"    \* getValueText returns None
AdServices == {OLD_FIRMWARE_SERVICE, NEW_FIRMWARE_SERVICE, OTHER_SERVICE, NO_SERVICE}

\* hexadecimal text of the service data of a legacy advertisement
ServiceDatas == {hexlify(<<0, 0>>), hexlify(<<1, 0>>), hexlify(<<0, 1>>),
                 hexlify(<<3, 255>>), None}

\* status(): up to scanner.scan(2)
StatusStart ==
    /\ pc = "start"
    /\ arguments.verb = "status"
    /\ pc' = "scanning"
    /\ log' = Append(log, LogE("scan", NoMac, 0, <<>>, FALSE, TRUE))
    /\ UNCHANGED <<arguments, exitCode, out, state_handle, curr_val, auth_key,
                   sign_data, signed_val, cccd, pending, dots, ads, seen,
                   found_old, found_new, chars, rows, dval, idx>>

\* handleDiscovery, were the test dev.addr in self.seen missing
handleDiscovery_NoDedup(a, service) ==
    IF arguments.mac # NoMac /\ arguments.mac # a
    THEN UNCHANGED <<seen, found_old, found_new>>
    ELSE /\ seen' = Append(seen, a)
         /\ found_old' = IF service = OLD_FIRMWARE_SERVICE
                         THEN Append(found_old, a) ELSE found_old
         /\ found_new' = IF service # OLD_FIRMWARE_SERVICE
                            /\ service = NEW_FIRMWARE_SERVICE
                         THEN Append(found_new, a) ELSE found_new

\* ScanDelegate.handleDiscovery(dev, isNewDev, isNewData), where
\* dev.addr = a and dev.getValueText(SERVICES_AD_TYPE) = service
handleDiscovery(a, service) ==
    IF arguments.mac # NoMac /\ arguments.mac # a
    THEN UNCHANGED <<seen, found_old, found_new>>
    ELSE IF InList(seen, a)
    THEN UNCHANGED <<seen, found_old, found_new>>
    ELSE /\ seen' = Append(seen, a)
         /\ found_old' = IF service = OLD_FIRMWARE_SERVICE
                         THEN Append(found_old, a) ELSE found_old
         /\ found_new' = IF service # OLD_FIRMWARE_SERVICE
                            /\ service = NEW_FIRMWARE_SERVICE
                         THEN Append(found_new, a) ELSE found_new

\* the scanner hands an advertisement to the delegate
Discovery ==
    /\ pc = "scanning"
    /\ Len(ads) < MaxAds
    /\ \E a \in Addrs, service \in AdServices :
        /\ ads' = Append(ads, [addr |-> a, service |-> service])
        /\ handleDiscovery(a, service)
    /\ UNCHANGED <<arguments, pc, exitCode, out, log, state_handle, curr_val,
                   auth_key, sign_data, signed_val, cccd, pending, dots,
                   chars, rows, dval, idx>>

\* status(): scanner.scan(2) raises BTLEException; then sys.exit()
ScanInterrupted ==
    /\ pc = "scanning"
    /\ log' = Append(log, LogE("scan", NoMac, 0, <<>>, FALSE, FALSE))
    /\ Exit(<<Msg("WARNING")>>, 0)
    /\ UNCHANGED <<arguments, state_handle, curr_val, auth_key, sign_data,
                   signed_val, cccd, pending, dots, ads, seen, found_old,
                   found_new, chars, rows, dval, idx>>

\* print_found: go on with the i-th legacy device, or with the first
\* device of found_new, or return to __main__, which calls sys.exit()
ContinueOld(i, lines) ==
    IF i <= Len(found_old)
    THEN pc' = "print_old" /\ idx' = i /\ out' = out \o lines /\ UNCHANGED exitCode
    ELSE IF Len(found_new) > 0
    THEN pc' = "print_new" /\ idx' = 1 /\ out' = out \o lines /\ UNCHANGED exitCode
    ELSE idx' = i /\ Exit(lines, 0)

\* print_found: go on with the i-th device of found_new, or return
ContinueNew(i, lines) ==
    IF i <= Len(found_new)
    THEN pc' = "print_new" /\ idx' = i /\ out' = out \o lines /\ UNCHANGED exitCode
    ELSE idx' = i /\ Exit(lines, 0)

\* status(): scanner.scan(2) returns and delegate.print_found() begins
ScanReturns ==
    /\ pc = "scanning"
    /\ ContinueOld(1, <<>>)
    /\ UNCHANGED <<arguments, log, state_handle, curr_val, auth_key, sign_data,
                   signed_val, cccd, pending, dots, ads, seen, found_old,
                   found_new, chars, rows, dval>>

\* print_found: one turn of the loop over found_old
PrintFoundOld ==
    /\ pc = "print_old"
    /\ \E data \in ServiceDatas :
        IF data = None
        THEN Exit(<<Msg("TypeError")>>, 1) /\ UNCHANGED idx
        ELSE LET val == (IntHex(data) \div 256) % 2
             IN  ContinueOld(idx + 1, <<Line(OnOff(val), found_old[idx], <<>>)>>)
    /\ UNCHANGED <<arguments, log, state_handle, curr_val, auth_key, sign_data,
                   signed_val, cccd, pending, dots, ads, seen, found_old,
                   found_new, chars, rows, dval>>

\* print_val(addr, val): the line printed, or the IndexError of
\* ("off", "on")[val]
print_val(addr, val) ==
    IF val \in {0, 1} THEN Line(OnOff(val), addr, <<>>)
    ELSE Line("WARNING", addr, <<>>)

\* print_found: one turn of the loop over found_new,
\* val = ord(get_state(Peripheral(dev))[0]) and print_val, any exception
\* being reported as a warning
PrintFoundNew ==
    /\ pc = "print_new"
    /\ LET a == found_new[idx]
           conn(ok) == LogE("connect", a, 0, <<>>, FALSE, ok)
           rd(h, v, ok) == LogE("read", a, h, v, FALSE, ok)
           warn == <<Line("WARNING", a, <<>>)>>
       IN  \/ /\ log' = log \o <<conn(FALSE)>>
              /\ ContinueNew(idx + 1, warn)
           \/ /\ log' = log \o <<conn(TRUE),
                                 rd(ORIGINAL_MODEL_STRING_HANDLE, <<>>, FALSE)>>
              /\ ContinueNew(idx + 1, warn)
           \/ \E model \in ModelStrings :
                /\ log' = log \o <<conn(TRUE),
                                   rd(ORIGINAL_MODEL_STRING_HANDLE, model, TRUE),
                                   rd(get_state_handle(model), <<>>, FALSE)>>
                /\ ContinueNew(idx + 1, warn)
           \/ \E model \in ModelStrings, sv \in StateVals :
                /\ log' = log \o <<conn(TRUE),
                                   rd(ORIGINAL_MODEL_STRING_HANDLE, model, TRUE),
                                   rd(get_state_handle(model), sv, TRUE)>>
                /\ ContinueNew(idx + 1, <<print_val(a, sv[1])>>)
    /\ UNCHANGED <<arguments, state_handle, curr_val, auth_key, sign_data,
                   signed_val, cccd, pending, dots, ads, seen, found_old,
                   found_new, chars, rows, dval>>

-----------------------------------------------------------------------------

Next ==
    \/ Scan
    \/ StatusStart
    \/ Discovery
    \/ ScanInterrupted
    \/ ScanReturns
    \/ PrintFoundOld
    \/ PrintFoundNew
    \/ Connect
    \/ DebugEnumerate
    \/ DebugChar
    \/ IsNewFirmware
    \/ NewReadModel
    \/ NewReadState
    \/ NewWrite
    \/ ParseKey
    \/ OldEnableNotify
    \/ OldSignedWrite
    \/ WaitForNotifications
    \/ Interrupt
    \/ DeviceNotify
    \/ AuthEnableNotify
    \/ AuthInit

Spec == Init /\ [][Next]_vars

\* the steps of the script itself; DeviceNotify and Interrupt are steps of
\* the device and of the user
Script ==
    \/ Scan \/ StatusStart \/ ScanReturns \/ PrintFoundOld \/ PrintFoundNew
    \/ Connect \/ DebugEnumerate \/ DebugChar \/ IsNewFirmware \/ NewReadModel
    \/ NewReadState \/ NewWrite \/ ParseKey \/ OldEnableNotify
    \/ OldSignedWrite \/ WaitForNotifications \/ AuthEnableNotify \/ AuthInit

\* the interpreter keeps running the script: a script step that is possible
\* is eventually taken
FairSpec == Spec /\ WF_vars(Script)

-----------------------------------------------------------------------------
(* Properties *)

LogIdx == 1..Len(log)
WriteIdx == {i \in LogIdx : log[i].op = "write"}
IsWrite(e) == e.op = "write"
Writes == SelectSeq(log, IsWrite)
HandledIdx == {i \in LogIdx : log[i].op = "handled"}
LookupFound == \E i \in LogIdx : log[i].op = "lookup" /\ log[i].ok
LookupFailed == \E i \in LogIdx : log[i].op = "lookup" /\ ~log[i].ok
StateHandles == {ORIGINAL_STATE_HANDLE, BRIGHT_STATE_HANDLE}
StateReadIdx ==
    {i \in LogIdx : log[i].op = "read" /\ log[i].ok /\ log[i].h \in StateHandles}
Printed(msg) == \E i \in 1..Len(out) : out[i].msg = msg

(* C1: in a switch on a Current device the state byte is read from the     *)
(* resolved handle before any write; when the byte read equals the desired *)
(* byte the invocation makes no GATT write and reports "Already"; when it  *)
(* differs, exactly one write with response of the desired byte goes to    *)
(* the handle that was read, and once that write is acknowledged the       *)
(* invocation reports "Switched!".                                         *)
C1_IdempotentSwitch ==
    (arguments.verb = "switch" /\ LookupFound) =>
        /\ Cardinality(WriteIdx) <= 1
        /\ \A w \in WriteIdx :
              /\ log[w].v = Val
              /\ log[w].resp
              /\ \E r \in StateReadIdx :
                    r < w /\ log[r].h = log[w].h /\ log[r].h = state_handle
        /\ \A r \in StateReadIdx :
              IF log[r].v[1] = Val[1]
              THEN /\ WriteIdx = {}
                   /\ pc = "exited"
                   /\ exitCode = 0
                   /\ out = <<Line("Already", NoMac, Val)>>
              ELSE pc = "exited" =>
                     /\ Cardinality(WriteIdx) = 1
                     /\ \A w \in WriteIdx :
                           log[w].ok => exitCode = 0 /\ out = <<Msg("Switched!")>>
        /\ Printed("Switched!") => \E w \in WriteIdx : log[w].ok

C1_Witness ==
    /\ arguments.verb = "switch" /\ LookupFound
    /\ pc = "exited"
    /\ \E r \in StateReadIdx : log[r].v = Val
    /\ Printed("Already")

(* C2: a switch on a Legacy device with a 6-byte key first writes the      *)
(* notify-enable payload with response to handle 0x0f, then writes         *)
(* sign([0x01, desired byte], key) to handle 0x0e, and only then waits;    *)
(* a notification is handled after the signed write only, and it ends the  *)
(* process with exit code 0 when its last byte is 0x00 and with exit code  *)
(* 1 when its last byte is nonzero.                                        *)
C2_LegacySwitchOrder ==
    (arguments.verb = "switch" /\ LookupFailed /\ Len(auth_key) = 6) =>
        /\ Len(Writes) <= 2
        /\ Len(Writes) >= 1 =>
              /\ Writes[1].h = STATE_NOTIFY_HANDLE
              /\ Writes[1].v = ENABLE_NOTIFY
              /\ Writes[1].resp
        /\ Len(Writes) = 2 =>
              /\ Writes[1].ok
              /\ Writes[2].h = OLD_STATE_HANDLE
              /\ Writes[2].v = sign(<<1, Val[1]>>, auth_key).bytes
              /\ Len(Writes[2].v) = 6
              /\ (auth_key = <<1, 2, 3, 4, 5, 6>> /\ arguments.on) =>
                    Writes[2].v = <<211, 175, 73, 90, 1, 1>>
        /\ pc = "wait" => Len(Writes) = 2 /\ Writes[2].ok
        /\ \A i \in HandledIdx :
              /\ \E w \in WriteIdx : w < i /\ log[w].h = OLD_STATE_HANDLE
              /\ pc = "exited"
              /\ exitCode = IF log[i].v[Len(log[i].v)] = 0 THEN 0 ELSE 1

C2_Witness ==
    /\ arguments.verb = "switch" /\ LookupFailed /\ Len(auth_key) = 6
    /\ pc = "exited"
    /\ exitCode = 0
    /\ \E i \in HandledIdx : log[i].v[Len(log[i].v)] = 0 /\ log[i].v[1] # 0

(* C3: a switch on a Legacy device always terminates: once the script      *)
(* waits for the notification, the wait ends, after a bounded number of    *)
(* wait slices, with the exit of the process.                              *)
C3_SwitchTerminates == (pc = "wait") ~> (pc = "exited")

(* C4: an auth invocation that has written the notify-enable payload to    *)
(* 0x17 and the init value to 0x16 does not reach its end before a         *)
(* notification was received and its payload surfaced as the Auth Key, or  *)
(* a failure was reported.                                                 *)
C4_AuthWaitsForKey ==
    (/\ arguments.verb = "auth"
     /\ pc = "exited"
     /\ \E w \in WriteIdx : log[w].h = AUTH_HANDLE /\ log[w].v = AUTH_INIT_VALUE) =>
        \/ Printed("Auth key is") /\ HandledIdx # {}
        \/ exitCode = 1 /\ Printed("ERROR")

(* C5: a switch on a Legacy device invoked without an auth key fails with  *)
(* an error and a nonzero exit code, and no GATT write has been made when  *)
(* it fails.                                                               *)
C5_NoKeyFails ==
    (/\ arguments.verb = "switch"
     /\ LookupFailed
     /\ arguments.key \in {None, NONE_TEXT}) =>
        /\ WriteIdx = {}
        /\ pc \in {"parse_key", "exited"}
        /\ pc = "exited" => exitCode = 1 /\ out = <<Msg("TypeError")>>

C5_Witness ==
    /\ arguments.verb = "switch"
    /\ LookupFailed
    /\ arguments.key = NONE_TEXT
    /\ pc = "exited"
    /\ exitCode = 1


(* C6: for every verb the exit code is 1 whenever a scan, connection, read *)
(* or write failed during the invocation, and a failed connection attempt  *)
(* is the last BLE operation of the invocation.                            *)
C6_FailureMeansExitOne ==
    /\ (/\ pc = "exited"
        /\ \E i \in LogIdx :
              log[i].op \in {"scan", "connect", "read", "write"} /\ ~log[i].ok) =>
           exitCode = 1
    /\ \A i \in LogIdx : (log[i].op = "connect" /\ ~log[i].ok) => i = Len(log)

\* the filter of handleDiscovery
Passes(a) == arguments.mac = NoMac \/ arguments.mac = a

\* the k-th callback is the first of its address
IsFirst(k) == \A j \in 1..(k - 1) : ads[j].addr # ads[k].addr

RECURSIVE FirstSeenWith(_, _)
\* the addresses, in the order of their first callback among the first k
\* callbacks, whose first callback carried the service
FirstSeenWith(k, service) ==
    IF k = 0 THEN <<>>
    ELSE IF Passes(ads[k].addr) /\ IsFirst(k) /\ ads[k].service = service
    THEN Append(FirstSeenWith(k - 1, service), ads[k].addr)
    ELSE FirstSeenWith(k - 1, service)

NoDup(l) == \A i, j \in 1..Len(l) : l[i] = l[j] => i = j

(* C7: after any sequence of discovery callbacks of a status scan, every   *)
(* address occurs at most once in found_old and found_new together, and    *)
(* each list holds, in first-seen order, the addresses whose first         *)
(* callback carried its service: later callbacks of an address that was    *)
(* seen change nothing.                                                    *)
C7_DedupFirstSeen ==
    arguments.verb = "status" =>
        /\ NoDup(found_old \o found_new)
        /\ NoDup(seen)
        /\ found_old = FirstSeenWith(Len(ads), OLD_FIRMWARE_SERVICE)
        /\ found_new = FirstSeenWith(Len(ads), NEW_FIRMWARE_SERVICE)

C7_Witness ==
    /\ arguments.verb = "status"
    /\ Len(found_old) = 2
    /\ found_old[1] > found_old[2]
    /\ \E i, j \in 1..Len(ads) :
          i < j /\ ads[i].addr = ads[j].addr /\ ads[i].service # ads[j].service

DeviceLines == SelectSeq(out, LAMBDA l : l.msg \in {"found", "on", "off"})

(* C8: when a scan or status targets all devices, the devices are output   *)
(* in ascending address order.                                             *)
C8_OutputSortedByAddress ==
    (/\ pc = "exited"
     /\ arguments.verb \in {"scan", "status"}
     /\ arguments.mac = NoMac) =>
        \A i, j \in 1..Len(DeviceLines) :
            i < j => DeviceLines[i].addr < DeviceLines[j].addr

(* C9: on a Current device every read or write of handle 0x2e or 0x30 is   *)
(* preceded, on the same connection, by a read of handle 0x14, and the     *)
(* handle used is 0x2e exactly when the bytes read there are "Original".   *)
C9_StateHandleFromModel ==
    \A i \in LogIdx :
        (log[i].op \in {"read", "write"} /\ log[i].h \in StateHandles) =>
            \E j \in 1..(i - 1) :
                /\ log[j].op = "read"
                /\ log[j].ok
                /\ log[j].h = ORIGINAL_MODEL_STRING_HANDLE
                /\ log[j].addr = log[i].addr
                /\ \A k \in j..i : log[k].op # "connect"
                /\ log[i].h = ORIGINAL_STATE_HANDLE <=>
                       log[j].v = ORIGINAL_MODEL_STRING

C9_Witness ==
    \E i, j \in LogIdx :
        /\ j < i
        /\ log[i].op = "write" /\ log[i].h = BRIGHT_STATE_HANDLE
        /\ log[j].op = "read" /\ log[j].h = ORIGINAL_MODEL_STRING_HANDLE
        /\ log[j].v = SubSeq(ORIGINAL_MODEL_STRING, 1, 7)

(* C10: sign(data, key) signals an error, and returns no payload, whenever *)
(* data is not exactly 2 bytes or key is not exactly 6 bytes.              *)
C10_SignRejectsInvalid ==
    (pc = "sign_done" /\ (Len(sign_data) # 2 \/ Len(auth_key) # 6)) =>
        ~signed_val.ok


\* The hash as the specification words it, on four 16-bit digits, least
\* significant first: 1000003 = 15 * 65536 + 16963.
RefMul(x) ==
    LET t1 == 16963 * x[1]
        t2 == 16963 * x[2] + 15 * x[1] + (t1 \div 65536)
        t3 == 16963 * x[3] + 15 * x[2] + (t2 \div 65536)
        t4 == 16963 * x[4] + 15 * x[3] + (t3 \div 65536)
    IN  <<t1 % 65536, t2 % 65536, t3 % 65536, t4 % 65536>>

RECURSIVE RefXorFrom(_, _, _)
RefXorFrom(a, b, k) ==
    IF k = 16 THEN 0
    ELSE (IF (a \div (2 ^ k)) % 2 = (b \div (2 ^ k)) % 2 THEN 0 ELSE 2 ^ k)
         + RefXorFrom(a, b, k + 1)

RefRound(x, c, n) ==
    The({[m EXCEPT ![1] = RefXorFrom(RefXorFrom(m[1], c, 0), n, 0)] :
            m \in {RefMul(x)}})

RECURSIVE RefLoop(_, _, _)
RefLoop(blob, i, x) ==
    IF i > Len(blob) THEN x
    ELSE The({RefLoop(blob, i + 1, y) : y \in {RefRound(x, blob[i], Len(blob))}})

RefHash(blob) == RefLoop(blob, 1, <<blob[1] * 128, 0, 0, 0>>)

RefNegative(x) == x[4] >= 32768

RefPayload(data, key) ==
    LET x == RefHash(data \o key)
    IN  <<x[1] % 256, x[1] \div 256, x[2] % 256, x[2] \div 256, data[1], data[2]>>

(* C11: for 2-byte data and a 6-byte key, sign returns exactly 6 bytes:    *)
(* the little-endian low 32 bits of the accumulator started at             *)
(* blob[0] << 7 and updated, for each of the 8 bytes c of data || key, to  *)
(* ((1000003 * x) mod 2^64) XOR c XOR len(blob), then data[0] and data[1]; *)
(* also when the accumulator is negative as a signed 64-bit value.         *)
C11_SignPayload ==
    (pc = "sign_done" /\ Len(sign_data) = 2 /\ Len(auth_key) = 6) =>
        /\ signed_val.ok
        /\ Len(signed_val.bytes) = 6
        /\ signed_val.bytes = RefPayload(sign_data, auth_key)
        /\ (sign_data = <<1, 0>> /\ auth_key = <<170, 187, 204, 221, 238, 255>>) =>
              signed_val.bytes = <<10, 149, 36, 193, 1, 0>>
        /\ (sign_data = <<1, 1>> /\ auth_key = <<1, 2, 3, 4, 5, 6>>) =>
              signed_val.bytes = <<211, 175, 73, 90, 1, 1>>

C11_Witness ==
    /\ pc = "sign_done"
    /\ Len(sign_data) = 2 /\ Len(auth_key) = 6
    /\ RefNegative(RefHash(sign_data \o auth_key))
    /\ signed_val.ok
    /\ signed_val.bytes[5] # signed_val.bytes[6]


ConnectIdx == {i \in LogIdx : log[i].op = "connect"}
Reported(a) == \E i \in 1..Len(out) : out[i].addr = a

(* C12: scan opens no connection; status connects only to discovered       *)
(* devices whose state is not in their advertisement, once for each, and   *)
(* reports the others without connecting; a device without advertised      *)
(* state never aborts the command: when the scan has returned and the      *)
(* process has ended, every discovered device has its line of output.      *)
C12_ConnectOnlyAsFallback ==
    arguments.verb \in {"scan", "status"} =>
        /\ arguments.verb = "scan" => ConnectIdx = {}
        /\ \A i \in ConnectIdx :
              /\ InList(found_new, log[i].addr)
              /\ ~InList(found_old, log[i].addr)
              /\ \A j \in ConnectIdx : log[j].addr = log[i].addr => i = j
        /\ (/\ arguments.verb = "status"
            /\ pc = "exited"
            /\ \A i \in LogIdx : log[i].op = "scan" => log[i].ok) =>
              /\ exitCode = 0
              /\ \A k \in 1..Len(found_old) : Reported(found_old[k])
              /\ \A k \in 1..Len(found_new) : Reported(found_new[k])


FailedReadIdx == {i \in LogIdx : log[i].op = "read" /\ ~log[i].ok}

(* C13: in debug, a read failure on one readable characteristic does not   *)
(* fail the command: every characteristic still gets its row and the       *)
(* command ends with exit code 0.                                          *)
C13_DebugReadFailureTolerated ==
    (arguments.verb = "debug" /\ pc = "exited" /\ FailedReadIdx # {}) =>
        /\ exitCode = 0
        /\ Len(rows) = Len(chars)
        /\ Printed("table")


CurrentHandles == StateHandles \cup {ORIGINAL_MODEL_STRING_HANDLE}
LegacyHandles == {OLD_STATE_HANDLE, STATE_NOTIFY_HANDLE}
GattIdx == {i \in LogIdx : log[i].op \in {"read", "write"}}

(* C14: in a switch, a failed lookup of the Current service classifies the *)
(* device as Legacy without surfacing the error: the command goes on with  *)
(* the key, the notify-enable write to 0x0f and the signed write to 0x0e,  *)
(* and touches none of the handles 0x14, 0x2e, 0x30; after a successful    *)
(* lookup the handles 0x0e and 0x0f are never written.                     *)
C14_LookupDecidesPath ==
    arguments.verb = "switch" =>
        /\ LookupFailed =>
              /\ \A i \in GattIdx : log[i].h \notin CurrentHandles
              /\ log[Len(log)].op = "lookup" =>
                    /\ ~Printed("ERROR")
                    /\ IF unhexlify(arguments.key).ok
                       THEN pc \in {"parse_key", "old_notify"} /\ out = <<>>
                       ELSE pc \in {"parse_key", "exited"}
              /\ \A i \in WriteIdx : log[i].h \in LegacyHandles
              /\ pc \in {"old_write", "wait"} =>
                    \E i \in WriteIdx : log[i].h = STATE_NOTIFY_HANDLE /\ log[i].ok
              /\ pc = "wait" =>
                    \E i \in WriteIdx : log[i].h = OLD_STATE_HANDLE /\ log[i].ok
        /\ LookupFound =>
              /\ \A i \in GattIdx : log[i].h \notin LegacyHandles
              /\ auth_key = None

C14_Witness ==
    /\ arguments.verb = "switch"
    /\ LookupFailed
    /\ pc = "wait"
    /\ \E i \in WriteIdx : log[i].h = OLD_STATE_HANDLE

Connected ==
    /\ arguments.verb \in {"switch", "auth", "debug"}
    /\ \E i \in LogIdx : log[i].op = "connect" /\ log[i].ok
DisconnectIdx == {i \in LogIdx : log[i].op = "disconnect"}

(* C15: an invocation that has connected to the device and has ended, on   *)
(* whichever path (success, GATT error, switch failure reported by the     *)
(* device, interruption of the notification wait), has disconnected the    *)
(* device before exiting.                                                  *)
C15_DisconnectBeforeExit ==
    (Connected /\ pc = "exited") => DisconnectIdx # {}

OpenIdx == {i \in ConnectIdx : log[i].ok}

(* C16: at most one connection is open at any point: between two           *)
(* connections opened in one invocation the earlier one is closed, so      *)
(* status closes the connection to one device before it opens the next.    *)
C16_OneConnectionAtATime ==
    \A i, j \in OpenIdx :
        i < j => \E d \in DisconnectIdx :
                    i < d /\ d < j /\ log[d].addr = log[i].addr

StatusShows(a, msg) ==
    \E i \in 1..Len(out) : out[i].addr = a /\ out[i].msg = msg

(* C17: status reports a device whose state byte, read from the resolved   *)
(* state handle, is 0x00 as off and one whose byte is any nonzero value as *)
(* on.                                                                     *)
C17_NonzeroMeansOn ==
    (arguments.verb = "status" /\ pc = "exited") =>
        \A i \in StateReadIdx :
            StatusShows(log[i].addr, IF log[i].v[1] = 0 THEN "off" ELSE "on")

ScanEnded ==
    /\ pc \in {"print_old", "print_new", "exited"}
    /\ \A i \in LogIdx : log[i].op = "scan" => log[i].ok

(* C18: at the end of the scan of status, every address that passes the    *)
(* address filter and for which at least one discovery callback carried a  *)
(* Switchmate service is in found_old or found_new, whatever an earlier    *)
(* callback for that address carried.                                      *)
C18_DiscoveryComplete ==
    (arguments.verb = "status" /\ ScanEnded) =>
        \A k \in 1..Len(ads) :
            (Passes(ads[k].addr) /\ ads[k].service \in SWITCHMATE_SERVICES) =>
                InList(found_old \o found_new, ads[k].addr)

SignedWriteIdx == {i \in WriteIdx : log[i].h = OLD_STATE_HANDLE}
NotifyIdx == {i \in LogIdx : log[i].op = "notify"}

(* C19: a Legacy switch exits with status 0 only when the notification it  *)
(* handled is not on the auth handle, has 0x00 as its last byte and was    *)
(* sent by the device after the signed payload was written.                *)
C19_OutcomeBoundToCommand ==
    (/\ arguments.verb = "switch"
     /\ LookupFailed
     /\ pc = "exited"
     /\ exitCode = 0) =>
        \E w \in SignedWriteIdx, n \in NotifyIdx, i \in HandledIdx :
            /\ w < n /\ n < i
            /\ log[i].h = log[n].h /\ log[i].v = log[n].v
            /\ log[i].h # AUTH_HANDLE
            /\ log[i].v[Len(log[i].v)] = 0

(* C20: the debug table has one row per characteristic; the row of a       *)
(* readable characteristic shows the value read from it, the row of one    *)
(* that does not support read is produced without failing and does not     *)
(* show the value of a characteristic read before it.                      *)
C20_RowsCarryOwnValue ==
    arguments.verb = "debug" =>
        /\ \A r \in 1..Len(rows) :
              /\ rows[r].h = r
              /\ IF chars[r].readable
                 THEN rows[r].value = Shown(chars[r].value)
                 ELSE \A q \in 1..(r - 1) :
                         chars[q].readable => rows[r].value # rows[q].value
        /\ (pc = "exited" /\ FailedReadIdx = {} /\ Len(chars) > 0) =>
              exitCode = 0 /\ Len(rows) = Len(chars)

====
